---- MODULE Spec2Model ----
(***************************************************************************)
(* A model of vkMemBench: the Vulkan wrapper types of vkcontext.{hh,cc}    *)
(* (Context, Buffer, Fence) and the two runs of vkmembench.cc,             *)
(* copy_benchmark and main.  Five specifications share one set of          *)
(* variables:                                                              *)
(*   SpecContext    construction and destruction of a Context against a    *)
(*                  driver that exposes some devices and queue families;   *)
(*   SpecBuffer     any sequence of allocate / mmap / munmap / destruction *)
(*                  on one Buffer of a live Context;                       *)
(*   SpecBench      the submit / wait / reset / read-back loop of          *)
(*                  copy_benchmark on a device that executes the recorded  *)
(*                  commands and writes timestamps;                        *)
(*   SpecBenchFair  the same loop under fairness, the counter at rest;     *)
(*   SpecProgram    a whole run of copy_benchmark or main, from its first  *)
(*                  statement to the destruction of the Context.           *)
(* Every operation is one action.  `trace' holds the driver calls the last *)
(* operation issued, in order; `lastOp' and `outcome' name that operation  *)
(* and how it ended (returned, threw, failed an assertion, or went on      *)
(* after a driver failure it did not look at).                             *)
(***************************************************************************)
EXTENDS Integers, Sequences, FiniteSets, TLC

VARIABLES
  \* the last operation, how it ended, and the driver calls it made
  lastOp, outcome, trace,
  \* the driver as Context sees it
  numPhysicalDevices, queue_families,
  \* class Context (vkcontext.hh:59-63) and the object's lifetime
  m_instance, m_physical_device, m_device, m_compute_queue,
  m_compute_command_pool, queueFamilyIndex, ctxState,
  \* driver objects: the live ones and how often each was destroyed
  live, destroyCount,
  \* the driver as Buffer sees it
  memoryTypes, nextMemory, memLive, memFrees, boundMemory, hostMapped,
  \* class Buffer (vkcontext.hh:15-19) and the object's lifetime
  m_allocation, m_mapped, bufState, reqFlags,
  \* copy_benchmark's loop and the device's fence and queue
  pc, count, fenceSignaled, inFlight, submits, observed, total_bytes,
  total_nanos,
  \* what a run is given: its argument, which function runs, the device's
  \* timestamp period and the highest reading of its counter
  buffer_size, program, period, maxDelta,
  \* the locals of copy_benchmark and main (their handles, the two Buffers,
  \* the wrapper objects alive), the handles acquired and released so far,
  \* the first driver call that reported a failure, and the commands
  \* recorded in the command buffer
  h, bufs, objects, acquired, released, firstFailure, recorded,
  \* the device's query pool and what its last execution did
  queries, badWrite, gpuLog

ctxVars == <<numPhysicalDevices, queue_families, m_instance, m_physical_device,
             m_device, m_compute_queue, m_compute_command_pool,
             queueFamilyIndex, ctxState>>
drvVars == <<live, destroyCount>>
bufVars == <<memoryTypes, nextMemory, memLive, memFrees, boundMemory,
             hostMapped, m_allocation, m_mapped, bufState, reqFlags>>
loopVars == <<pc, count, fenceSignaled, inFlight, submits, observed,
              total_bytes, total_nanos>>
envVars == <<buffer_size, program, period, maxDelta>>
runVars == <<h, bufs, objects, acquired, released, firstFailure, recorded>>
gpuVars == <<queries, badWrite, gpuLog>>
benchVars == <<loopVars, envVars, runVars, gpuVars>>
vars == <<lastOp, outcome, trace, ctxVars, drvVars, bufVars, benchVars>>

----------------------------------------------------------------------------
(* Bounds of the model. *)

\* the driver exposes 0..MaxDevices physical devices
MaxDevices == 2
\* and at most MaxFamilies queue families on the selected one
MaxFamilies == 3
\* queue capability masks are 0..MaxQueueFlags
MaxQueueFlags == 7
\* at most MaxTypes memory types
MaxTypes == 2
\* memory property masks are 0..MaxMemFlags
MaxMemFlags == 3
\* the driver hands out at most MaxAllocs memory objects
MaxAllocs == 2
\* copy_benchmark is called with a buffer_size of 1..MaxBufferSize units of
\* 128 bytes, or with one of two sizes that do not fit 32 bits
MaxBufferSize == 2
\* the device's timestamp period is MaxPeriod nanoseconds
MaxPeriod == 2
\* the device's timestamp counter reads 0..MaxDelta
MaxDelta == 1
\* and a difference of two readings is taken modulo TimestampRange, which
\* stands for the 2^64 of the program's unsigned subtraction
TimestampRange == 4

----------------------------------------------------------------------------
(* Values. *)

\* nullptr, the initial value of every handle of Context
NullHandle == "null"
\* what an output parameter holds after the driver call that should have
\* written it failed: the contents are undefined
InvalidHandle == "invalid"
\* std::optional without a value
Absent == -1

VK_QUEUE_COMPUTE_BIT == 2
VK_QUEUE_TRANSFER_BIT == 4

\* a & b on unsigned integers
RECURSIVE BitAnd(_, _)
BitAnd(a, b) ==
  IF a = 0 \/ b = 0 THEN 0
  ELSE (a % 2) * (b % 2) + 2 * BitAnd(a \div 2, b \div 2)

\* every bit of b is a bit of a
IsSuperset(a, b) == BitAnd(a, b) = b

QueueFlagSet == 0..MaxQueueFlags
MemFlagSet == 0..MaxMemFlags

SeqsUpTo(S, n) == UNION {[1..k -> S] : k \in 0..n}

Count(s, x) == Cardinality({i \in 1..Len(s) : s[i] = x})
\* the position of the first x in s, 0 when there is none
IndexOf(s, x) ==
  IF \E i \in 1..Len(s) : s[i] = x
  THEN CHOOSE i \in 1..Len(s) : s[i] = x /\ \A j \in 1..(i - 1) : s[j] # x
  ELSE 0

DriverObjects == {"instance", "device", "pool", "buffer"}
\* the memory objects the driver can hand out
MemoryObjects == 1..MaxAllocs

----------------------------------------------------------------------------
(* Context: construction (vkcontext.cc:82-85, 99-180). *)

Min(a, b) == IF a < b THEN a ELSE b

\* create_instance: a non-zero result of vkCreateInstance throws.
create_instance(fails) ==
  IF fails
  THEN [thrown |-> "unable to create vulkan instance",
        instance |-> NullHandle,
        calls |-> <<"vkCreateInstance">>]
  ELSE [thrown |-> "",
        instance |-> "instance",
        calls |-> <<"vkCreateInstance">>]

\* The driver's vkEnumeratePhysicalDevices called with room for `capacity'
\* handles when `available' devices exist: it writes as many as fit, sets the
\* count to the number written and reports VK_INCOMPLETE when some did not fit.
vkEnumeratePhysicalDevices(capacity, available, fails) ==
  IF fails
  THEN [result |-> "VK_ERROR_INITIALIZATION_FAILED",
        count |-> capacity,
        device |-> NullHandle]
  ELSE [result |-> IF available > capacity THEN "VK_INCOMPLETE" ELSE "VK_SUCCESS",
        count |-> Min(capacity, available),
        device |-> IF Min(capacity, available) > 0 THEN "physical0" ELSE NullHandle]

\* the test without its count: a driver without devices passes
SelectionFails_result_only(result, physical_device_count) ==
  result # "VK_SUCCESS" /\ result # "VK_INCOMPLETE"

\* the test that throws "unable to find physical device"
SelectionFails(result, physical_device_count) ==
  \/ (result # "VK_SUCCESS" /\ result # "VK_INCOMPLETE")
  \/ physical_device_count # 1

\* the test as a mask test: a family with more capabilities passes
QueueMatches_superset(queueFlags) ==
  IsSuperset(queueFlags, VK_QUEUE_COMPUTE_BIT + VK_QUEUE_TRANSFER_BIT)

\* the test of the queue-family loop, as the loop continues on its negation
QueueMatches(queueFlags) ==
  queueFlags = VK_QUEUE_COMPUTE_BIT + VK_QUEUE_TRANSFER_BIT

\* the queue-family loop from index i on: the index it breaks at, or Absent
\* when it runs off the end (found_queue stays false)
RECURSIVE find_queue_family(_, _)
find_queue_family(families, i) ==
  IF i >= Len(families) THEN Absent
  ELSE IF ~QueueMatches(families[i + 1]) THEN find_queue_family(families, i + 1)
  ELSE i

\* create_device, from the state create_instance left.  enumFails, deviceFails
\* and poolFails are the driver's answers; poolGarbage is what the unchecked
\* vkCreateCommandPool leaves in m_compute_command_pool when it fails.
create_device(available, families, enumFails, deviceFails, poolFails, poolGarbage) ==
  LET enum == vkEnumeratePhysicalDevices(1, available, enumFails)
      family == find_queue_family(families, 0)
      none == [physical_device |-> enum.device, device |-> NullHandle,
               queue |-> NullHandle, pool |-> NullHandle, family |-> Absent]
      c1 == <<"vkEnumeratePhysicalDevices">>
      c2 == c1 \o <<"vkGetPhysicalDeviceQueueFamilyProperties",
                    "vkGetPhysicalDeviceQueueFamilyProperties">>
      c3 == c2 \o <<"vkCreateDevice">>
      c4 == c3 \o <<"vkGetDeviceQueue", "vkCreateCommandPool">>
  IN  IF SelectionFails(enum.result, enum.count)
      THEN [none EXCEPT !.physical_device = enum.device] @@
           [thrown |-> "unable to find physical device", calls |-> c1]
      ELSE IF family = Absent
      THEN none @@ [thrown |-> "unable to find compute-capable queue", calls |-> c2]
      ELSE IF deviceFails
      THEN [none EXCEPT !.family = family] @@
           [thrown |-> "unable to create device", calls |-> c3]
      ELSE [physical_device |-> enum.device, device |-> "device",
            queue |-> "queue",
            pool |-> IF poolFails THEN poolGarbage ELSE "pool",
            family |-> family, thrown |-> "", calls |-> c4]

\* Context::Context.  An exception leaves the constructor without the
\* destructor running: the object never came to exist.
Context_ctor ==
  /\ ctxState = "unconstructed"
  /\ \E instanceFails, enumFails, deviceFails, poolFails \in BOOLEAN,
        poolGarbage \in {NullHandle, InvalidHandle} :
       LET ci == create_instance(instanceFails)
           cd == create_device(numPhysicalDevices, queue_families, enumFails,
                               deviceFails, poolFails, poolGarbage)
       IN  IF ci.thrown # ""
           THEN /\ outcome' = ci.thrown
                /\ trace' = ci.calls
                /\ ctxState' = "failed"
                /\ m_instance' = ci.instance
                /\ UNCHANGED <<m_physical_device, m_device, m_compute_queue,
                               m_compute_command_pool, queueFamilyIndex, live>>
           ELSE /\ outcome' = IF cd.thrown # "" THEN cd.thrown ELSE "ok"
                /\ trace' = ci.calls \o cd.calls
                /\ ctxState' = IF cd.thrown # "" THEN "failed" ELSE "constructed"
                /\ m_instance' = ci.instance
                /\ m_physical_device' = cd.physical_device
                /\ m_device' = cd.device
                /\ m_compute_queue' = cd.queue
                /\ m_compute_command_pool' = cd.pool
                /\ queueFamilyIndex' = cd.family
                /\ live' = {ci.instance, cd.device, cd.pool} \cap DriverObjects
  /\ lastOp' = "Context"
  /\ UNCHANGED <<numPhysicalDevices, queue_families, destroyCount, bufVars,
                 benchVars>>

(* Context: destruction (vkcontext.cc:87-97). *)

\* the destructor with the device destroyed before its command pool
Context_dtor_calls_device_first(pool, device, instance) ==
  (IF device # NullHandle THEN <<"vkDestroyDevice">> ELSE <<>>)
  \o (IF pool # NullHandle THEN <<"vkDestroyCommandPool">> ELSE <<>>)
  \o (IF instance # NullHandle THEN <<"vkDestroyInstance">> ELSE <<>>)

\* the driver calls of ~Context, in order, for the three handles
Context_dtor_calls(pool, device, instance) ==
  (IF pool # NullHandle THEN <<"vkDestroyCommandPool">> ELSE <<>>)
  \o (IF device # NullHandle THEN <<"vkDestroyDevice">> ELSE <<>>)
  \o (IF instance # NullHandle THEN <<"vkDestroyInstance">> ELSE <<>>)

\* the driver object a destroy call names
DestroyedBy(call) ==
  CASE call = "vkDestroyCommandPool" -> m_compute_command_pool
    [] call = "vkDestroyDevice" -> m_device
    [] call = "vkDestroyInstance" -> m_instance

\* Context::~Context, which runs for a constructed object only
Context_dtor ==
  /\ ctxState = "constructed"
  /\ LET calls == Context_dtor_calls(m_compute_command_pool, m_device, m_instance)
         gone == {DestroyedBy(calls[i]) : i \in 1..Len(calls)}
     IN  /\ trace' = calls
         /\ live' = live \ gone
         /\ destroyCount' =
              [o \in DriverObjects |->
                 destroyCount[o] +
                 Cardinality({i \in 1..Len(calls) : DestroyedBy(calls[i]) = o})]
  /\ ctxState' = "destroyed"
  /\ lastOp' = "~Context"
  /\ outcome' = "ok"
  /\ UNCHANGED <<numPhysicalDevices, queue_families, m_instance,
                 m_physical_device, m_device, m_compute_queue,
                 m_compute_command_pool, queueFamilyIndex, bufVars, benchVars>>

----------------------------------------------------------------------------
(* Buffer (vkcontext.cc:13-65) and Context::find_memory_type (182-192). *)

\* the test as a mask test: a type with more properties passes
MemoryTypeMatches_superset(propertyFlags, flags) ==
  BitAnd(propertyFlags, flags) = flags

\* the test of find_memory_type's loop
MemoryTypeMatches(propertyFlags, flags) == propertyFlags = flags

\* find_memory_type's loop from index i on: the index it returns, or Absent
RECURSIVE find_memory_type_from(_, _, _)
find_memory_type_from(types, flags, i) ==
  IF i >= Len(types) THEN Absent
  ELSE IF MemoryTypeMatches(types[i + 1], flags) THEN i
  ELSE find_memory_type_from(types, flags, i + 1)

\* Context::find_memory_type on the device's memory types
find_memory_type(flags) == find_memory_type_from(memoryTypes, flags, 0)

\* Buffer::allocate.  allocFails and bindFails are the driver's answers; the
\* driver runs out of memory objects after MaxAllocs.  Binding a buffer that
\* is already bound is invalid usage: the driver may keep either binding.
Buffer_allocate ==
  /\ bufState = "live"
  /\ lastOp' = "allocate"
  /\ \E memory_type_mask \in MemFlagSet, allocFails, bindFails \in BOOLEAN,
        keepsOld \in BOOLEAN :
       LET memory_type == find_memory_type(memory_type_mask)
           buffer_memory == nextMemory
       IN  /\ reqFlags' = memory_type_mask
           /\ IF memory_type = Absent
              THEN /\ outcome' = "unable to find memory type"
                   /\ trace' = <<"vkGetPhysicalDeviceMemoryProperties">>
                   /\ UNCHANGED <<nextMemory, memLive, boundMemory, m_allocation>>
              ELSE IF allocFails \/ nextMemory > MaxAllocs
              THEN /\ outcome' = "unable to allocate buffer"
                   /\ trace' = <<"vkGetPhysicalDeviceMemoryProperties",
                                 "vkAllocateMemory">>
                   /\ UNCHANGED <<nextMemory, memLive, boundMemory, m_allocation>>
              ELSE /\ nextMemory' = nextMemory + 1
                   /\ memLive' = memLive \cup {buffer_memory}
                   /\ m_allocation' = buffer_memory
                   /\ trace' = <<"vkGetPhysicalDeviceMemoryProperties",
                                 "vkAllocateMemory", "vkBindBufferMemory">>
                   /\ IF bindFails
                      THEN /\ outcome' = "unable to bind buffer"
                           /\ UNCHANGED boundMemory
                      ELSE /\ outcome' = "ok"
                           /\ boundMemory' =
                                IF boundMemory # Absent /\ keepsOld
                                THEN boundMemory ELSE buffer_memory
  /\ UNCHANGED <<memoryTypes, memFrees, hostMapped, m_mapped, bufState,
                 ctxVars, drvVars, benchVars>>

\* mmap without its second assertion
mmap_precondition_allocated_only(allocation, mapped) == allocation # Absent

\* the two assertions that open Buffer::mmap.  Nothing in the sources defines
\* NDEBUG, so <cassert>'s assert is compiled in and a false one aborts.
mmap_precondition(allocation, mapped) == allocation # Absent /\ ~mapped

\* Buffer::mmap.  A failed assertion aborts the process.
Buffer_mmap ==
  /\ bufState = "live"
  /\ lastOp' = "mmap"
  /\ IF ~mmap_precondition(m_allocation, m_mapped)
     THEN /\ outcome' = "assertion failed"
          /\ trace' = <<>>
          /\ bufState' = "aborted"
          /\ UNCHANGED <<m_mapped, hostMapped>>
     ELSE \E mapFails \in BOOLEAN :
            /\ trace' = <<"vkMapMemory">>
            /\ UNCHANGED bufState
            /\ IF mapFails
               THEN /\ outcome' = "unable to map memory"
                    /\ UNCHANGED <<m_mapped, hostMapped>>
               ELSE /\ outcome' = "ok"
                    /\ m_mapped' = TRUE
                    /\ hostMapped' = hostMapped \cup {m_allocation}
  /\ UNCHANGED <<memoryTypes, nextMemory, memLive, memFrees, boundMemory,
                 m_allocation, reqFlags, ctxVars, drvVars, benchVars>>

\* the assertion that opens Buffer::munmap
munmap_precondition(mapped) == mapped

\* Buffer::munmap
Buffer_munmap ==
  /\ bufState = "live"
  /\ lastOp' = "munmap"
  /\ IF ~munmap_precondition(m_mapped)
     THEN /\ outcome' = "assertion failed"
          /\ trace' = <<>>
          /\ bufState' = "aborted"
          /\ UNCHANGED <<m_mapped, hostMapped>>
     ELSE /\ outcome' = "ok"
          /\ m_mapped' = FALSE
          /\ trace' = <<"vkUnmapMemory">>
          /\ hostMapped' = hostMapped \ {m_allocation}
          /\ UNCHANGED bufState
  /\ UNCHANGED <<memoryTypes, nextMemory, memLive, memFrees, boundMemory,
                 m_allocation, reqFlags, ctxVars, drvVars, benchVars>>

\* the destructor with the buffer destroyed before its memory is freed
Buffer_dtor_calls_buffer_first(allocation) ==
  <<"vkDestroyBuffer">>
  \o (IF allocation # Absent THEN <<"vkFreeMemory">> ELSE <<>>)

\* the driver calls of ~Buffer, in order
Buffer_dtor_calls(allocation) ==
  (IF allocation # Absent THEN <<"vkFreeMemory">> ELSE <<>>)
  \o <<"vkDestroyBuffer">>

\* Buffer::~Buffer.  Buffer is neither copyable nor movable, so the destructor
\* runs once for each buffer create_buffer returned.
Buffer_dtor ==
  /\ bufState = "live"
  /\ lastOp' = "~Buffer"
  /\ outcome' = "ok"
  /\ LET calls == Buffer_dtor_calls(m_allocation)
         freed == IF Count(calls, "vkFreeMemory") > 0 THEN {m_allocation} ELSE {}
     IN  /\ trace' = calls
         /\ memLive' = memLive \ freed
         /\ hostMapped' = hostMapped \ freed
         /\ memFrees' = [m \in MemoryObjects |->
                           IF m \in freed
                           THEN memFrees[m] + Count(calls, "vkFreeMemory")
                           ELSE memFrees[m]]
         /\ boundMemory' = IF boundMemory \in freed THEN Absent ELSE boundMemory
         /\ live' = IF Count(calls, "vkDestroyBuffer") > 0
                    THEN live \ {"buffer"} ELSE live
         /\ destroyCount' = [destroyCount EXCEPT
                               !["buffer"] = @ + Count(calls, "vkDestroyBuffer")]
  /\ bufState' = "destroyed"
  /\ UNCHANGED <<memoryTypes, nextMemory, m_allocation, m_mapped, reqFlags,
                 ctxVars, benchVars>>

----------------------------------------------------------------------------
(* The two runs of vkmembench.cc: copy_benchmark (16-101) and main         *)
(* (126-216).  Sizes are counted in units of 128 bytes, the size of main's  *)
(* buffer.                                                                  *)

\* main's create_buffer(4 * 32, ...)
MainBufferUnits == 1
\* 2^32 bytes in units of 128: the values of create_buffer's std::uint32_t
\* size parameter are 0..UInt32Units-1 units
UInt32Units == 33554432

VK_MEMORY_PROPERTY_DEVICE_LOCAL_BIT == 1
VK_MEMORY_PROPERTY_HOST_VISIBLE_BIT == 2
VK_MEMORY_PROPERTY_HOST_COHERENT_BIT == 4

\* the conversion of copy_benchmark's std::uint64_t buffer_size to the
\* std::uint32_t parameter of create_buffer
Truncate32(size) == size % UInt32Units

\* the sizes copy_benchmark is called with
BufferSizes == (1..MaxBufferSize) \cup {UInt32Units, UInt32Units + 1}

\* the memory types of the devices a run meets: one with a host-visible
\* coherent type and a device-local type, one whose host-visible type is also
\* device-local, one without a device-local type
DeviceProfiles ==
  { <<VK_MEMORY_PROPERTY_HOST_VISIBLE_BIT + VK_MEMORY_PROPERTY_HOST_COHERENT_BIT,
      VK_MEMORY_PROPERTY_DEVICE_LOCAL_BIT>>,
    <<VK_MEMORY_PROPERTY_DEVICE_LOCAL_BIT + VK_MEMORY_PROPERTY_HOST_VISIBLE_BIT
        + VK_MEMORY_PROPERTY_HOST_COHERENT_BIT,
      VK_MEMORY_PROPERTY_DEVICE_LOCAL_BIT>>,
    <<VK_MEMORY_PROPERTY_HOST_VISIBLE_BIT + VK_MEMORY_PROPERTY_HOST_COHERENT_BIT>> }

Reverse(s) == [i \in 1..Len(s) |-> s[Len(s) + 1 - i]]

\* a Buffer local before its declaration is reached
NoBufferObject ==
  [m_size |-> 0, m_allocation |-> Absent, m_mapped |-> FALSE,
   allocationSize |-> 0, mapSize |-> 0]

NoHandles ==
  [src |-> NullHandle, dst |-> NullHandle, query_pool |-> NullHandle,
   transfer_fence |-> NullHandle, command_buffer |-> NullHandle]

\* the statements of copy_benchmark in order, each named by the position
\* that precedes it
AfterBench ==
  [create_src |-> "allocate_src", allocate_src |-> "mmap_src",
   mmap_src |-> "create_dst", create_dst |-> "allocate_dst",
   allocate_dst |-> "create_query_pool", create_query_pool |-> "create_fence",
   create_fence |-> "allocate_command_buffer",
   allocate_command_buffer |-> "record", record |-> "submit",
   submit |-> "wait", wait |-> "reset", reset |-> "readback"]

\* the statements of main in order
AfterMain ==
  [create_src |-> "allocate_src", allocate_src |-> "mmap_src",
   mmap_src |-> "pipeline", pipeline |-> "allocate_command_buffer",
   allocate_command_buffer |-> "record", record |-> "create_fence",
   create_fence |-> "submit", submit |-> "wait", wait |-> "reset",
   reset |-> "finish"]

Step(here) == IF program = "main" THEN AfterMain[here] ELSE AfterBench[here]

\* the first driver call of the run that reported a failure
NoteFailure(call) ==
  firstFailure' = IF firstFailure = "none" THEN call ELSE firstFailure

\* how an operation ends that does not look at the result of a driver call
Unchecked(failed) == IF failed THEN "failure ignored" ELSE "ok"

\* Context::create_buffer: the Buffer it returns, or what it throws
Context_create_buffer(size, which, fails) ==
  IF fails
  THEN [thrown |-> "unable to allocate buffer", handle |-> NullHandle,
        m_size |-> 0]
  ELSE [thrown |-> "", handle |-> which, m_size |-> Truncate32(size)]

\* a fence created with VK_FENCE_CREATE_SIGNALED_BIT
Context_create_fence_signaled(fails) ==
  [handle |-> IF fails THEN InvalidHandle ELSE "fence", signaled |-> ~fails]

\* Context::create_fence: the create info carries no flags, so the fence
\* starts unsignaled; the result of vkCreateFence is not looked at, and the
\* Fence returned after a failure holds an undefined handle
Context_create_fence(fails) ==
  [handle |-> IF fails THEN InvalidHandle ELSE "fence", signaled |-> FALSE]

\* the commands with the copy recorded ahead of the first timestamp
RecordedCommands_copy_first(size) ==
  << [op |-> "reset", stage |-> "", first |-> 0, second |-> 2, size |-> 0],
     [op |-> "copy", stage |-> "", first |-> 0, second |-> 0, size |-> size],
     [op |-> "timestamp", stage |-> "NONE", first |-> 0, second |-> 0, size |-> 0],
     [op |-> "timestamp", stage |-> "COPY", first |-> 1, second |-> 0, size |-> 0] >>

\* the commands copy_benchmark records (vkmembench.cc:58-66): for "reset",
\* first and second are firstQuery and queryCount; for "timestamp", first is
\* the query slot; for "copy", first and second are srcOffset and dstOffset
RecordedCommands(size) ==
  << [op |-> "reset", stage |-> "", first |-> 0, second |-> 2, size |-> 0],
     [op |-> "timestamp", stage |-> "NONE", first |-> 0, second |-> 0, size |-> 0],
     [op |-> "copy", stage |-> "", first |-> 0, second |-> 0, size |-> size],
     [op |-> "timestamp", stage |-> "COPY", first |-> 1, second |-> 0, size |-> 0] >>

\* the commands main records (vkmembench.cc:192-196)
MainCommands ==
  << [op |-> "bind", stage |-> "COMPUTE", first |-> 0, second |-> 0, size |-> 0],
     [op |-> "push", stage |-> "COMPUTE", first |-> 0, second |-> 0, size |-> 0],
     [op |-> "dispatch", stage |-> "", first |-> 1, second |-> 1, size |-> 1] >>

\* the memory handle of a local Buffer, as `acquired' and `released' name it
MemName(which) == IF which = "src" THEN "srcMem" ELSE "dstMem"

\* `Buffer src = context.create_buffer(...)' and `Buffer dst = ...'
\* (vkmembench.cc:22, 27, 135-136); the run starts once its Context exists
CreateBuffer ==
  /\ pc \in {"create_src", "create_dst"}
  /\ ctxState = "constructed"
  /\ lastOp' = "create_buffer"
  /\ trace' = <<"vkCreateBuffer">>
  /\ \E createFails \in BOOLEAN :
       LET which == IF pc = "create_src" THEN "src" ELSE "dst"
           size == IF program = "main" THEN MainBufferUnits ELSE buffer_size
           r == Context_create_buffer(size, which, createFails)
       IN  IF r.thrown # ""
           THEN /\ outcome' = r.thrown
                /\ pc' = "failed"
                /\ NoteFailure("vkCreateBuffer")
                /\ UNCHANGED <<h, bufs, objects, acquired>>
           ELSE /\ outcome' = "ok"
                /\ pc' = Step(pc)
                /\ h' = [h EXCEPT ![which] = r.handle]
                /\ bufs' = [bufs EXCEPT
                              ![which] = [NoBufferObject EXCEPT !.m_size = r.m_size]]
                /\ objects' = objects \cup {which}
                /\ acquired' = Append(acquired, which)
                /\ UNCHANGED firstFailure
  /\ UNCHANGED <<ctxVars, drvVars, bufVars, count, fenceSignaled, inFlight,
                 submits, observed, total_bytes, total_nanos, envVars,
                 released, recorded, gpuVars>>

\* src.allocate(HOST_VISIBLE | HOST_COHERENT) and dst.allocate(DEVICE_LOCAL)
\* (vkmembench.cc:23, 28, 137): Buffer::allocate on a local Buffer
AllocateBuffer ==
  /\ pc \in {"allocate_src", "allocate_dst"}
  /\ lastOp' = "allocate"
  /\ \E allocFails, bindFails \in BOOLEAN :
       LET which == IF pc = "allocate_src" THEN "src" ELSE "dst"
           flags == IF which = "src"
                    THEN VK_MEMORY_PROPERTY_HOST_VISIBLE_BIT
                         + VK_MEMORY_PROPERTY_HOST_COHERENT_BIT
                    ELSE VK_MEMORY_PROPERTY_DEVICE_LOCAL_BIT
           memory_type == find_memory_type(flags)
           buffer_memory == nextMemory
       IN  IF memory_type = Absent
           THEN /\ outcome' = "unable to find memory type"
                /\ trace' = <<"vkGetPhysicalDeviceMemoryProperties">>
                /\ pc' = "failed"
                /\ UNCHANGED <<nextMemory, memLive, bufs, acquired, firstFailure>>
           ELSE IF allocFails \/ nextMemory > MaxAllocs
           THEN /\ outcome' = "unable to allocate buffer"
                /\ trace' = <<"vkGetPhysicalDeviceMemoryProperties",
                              "vkAllocateMemory">>
                /\ pc' = "failed"
                /\ NoteFailure("vkAllocateMemory")
                /\ UNCHANGED <<nextMemory, memLive, bufs, acquired>>
           ELSE /\ nextMemory' = nextMemory + 1
                /\ memLive' = memLive \cup {buffer_memory}
                /\ bufs' = [bufs EXCEPT
                              ![which].m_allocation = buffer_memory,
                              ![which].allocationSize = bufs[which].m_size]
                /\ acquired' = Append(acquired, MemName(which))
                /\ trace' = <<"vkGetPhysicalDeviceMemoryProperties",
                              "vkAllocateMemory", "vkBindBufferMemory">>
                /\ IF bindFails
                   THEN /\ outcome' = "unable to bind buffer"
                        /\ pc' = "failed"
                        /\ NoteFailure("vkBindBufferMemory")
                   ELSE /\ outcome' = "ok"
                        /\ pc' = Step(pc)
                        /\ UNCHANGED firstFailure
  /\ UNCHANGED <<ctxVars, drvVars, memoryTypes, memFrees, boundMemory,
                 hostMapped, m_allocation, m_mapped, bufState, reqFlags,
                 count, fenceSignaled, inFlight, submits, observed,
                 total_bytes, total_nanos, envVars, h, objects, released,
                 recorded, gpuVars>>

\* `src.mmap()' and the std::fill over the span it returns
\* (vkmembench.cc:24-25, 138-139)
MapSource ==
  /\ pc = "mmap_src"
  /\ lastOp' = "mmap"
  /\ IF ~mmap_precondition(bufs.src.m_allocation, bufs.src.m_mapped)
     THEN /\ outcome' = "assertion failed"
          /\ trace' = <<>>
          /\ pc' = "aborted"
          /\ UNCHANGED <<bufs, hostMapped, firstFailure>>
     ELSE \E mapFails \in BOOLEAN :
            /\ trace' = <<"vkMapMemory">>
            /\ IF mapFails
               THEN /\ outcome' = "unable to map memory"
                    /\ pc' = "failed"
                    /\ NoteFailure("vkMapMemory")
                    /\ UNCHANGED <<bufs, hostMapped>>
               ELSE /\ outcome' = "ok"
                    /\ pc' = Step(pc)
                    /\ bufs' = [bufs EXCEPT !.src.m_mapped = TRUE,
                                            !.src.mapSize = bufs.src.m_size]
                    /\ hostMapped' = hostMapped \cup {bufs.src.m_allocation}
                    /\ UNCHANGED firstFailure
  /\ UNCHANGED <<ctxVars, drvVars, memoryTypes, nextMemory, memLive,
                 memFrees, boundMemory, m_allocation, m_mapped, bufState,
                 reqFlags, count, fenceSignaled, inFlight, submits,
                 observed, total_bytes, total_nanos, envVars, h, objects,
                 acquired, released, recorded, gpuVars>>

\* vkCreateQueryPool with two timestamp queries (vkmembench.cc:30-36); the
\* result is not looked at
CreateQueryPool ==
  /\ pc = "create_query_pool"
  /\ lastOp' = "vkCreateQueryPool"
  /\ trace' = <<"vkCreateQueryPool">>
  /\ pc' = Step(pc)
  /\ \E createFails \in BOOLEAN :
       /\ outcome' = Unchecked(createFails)
       /\ IF createFails
          THEN /\ h' = [h EXCEPT !.query_pool = InvalidHandle]
               /\ NoteFailure("vkCreateQueryPool")
               /\ UNCHANGED acquired
          ELSE /\ h' = [h EXCEPT !.query_pool = "queryPool"]
               /\ acquired' = Append(acquired, "queryPool")
               /\ UNCHANGED firstFailure
  /\ UNCHANGED <<ctxVars, drvVars, bufVars, count, fenceSignaled, inFlight,
                 submits, observed, total_bytes, total_nanos, envVars, bufs,
                 objects, released, recorded, gpuVars>>

\* `Fence transfer_fence = context.create_fence()' (vkmembench.cc:38) and
\* main's `Fence fence = context.create_fence()' (207), which the model keeps
\* in the same field
CreateFence ==
  /\ pc = "create_fence"
  /\ lastOp' = "create_fence"
  /\ trace' = <<"vkCreateFence">>
  /\ pc' = Step(pc)
  /\ \E createFails \in BOOLEAN :
       /\ outcome' = Unchecked(createFails)
       /\ LET r == Context_create_fence(createFails)
          IN  /\ h' = [h EXCEPT !.transfer_fence = r.handle]
              /\ fenceSignaled' = r.signaled
              /\ objects' = objects \cup {"transfer_fence"}
              /\ IF createFails
                 THEN /\ NoteFailure("vkCreateFence")
                      /\ UNCHANGED acquired
                 ELSE /\ acquired' = Append(acquired, "fence")
                      /\ UNCHANGED firstFailure
  /\ UNCHANGED <<ctxVars, drvVars, bufVars, count, inFlight, submits,
                 observed, total_bytes, total_nanos, envVars, bufs,
                 released, recorded, gpuVars>>

\* vkAllocateCommandBuffers (vkmembench.cc:41-48, 178-185); the result is not
\* looked at
AllocateCommandBuffer ==
  /\ pc = "allocate_command_buffer"
  /\ lastOp' = "vkAllocateCommandBuffers"
  /\ trace' = <<"vkAllocateCommandBuffers">>
  /\ pc' = Step(pc)
  /\ \E allocFails \in BOOLEAN :
       /\ outcome' = Unchecked(allocFails)
       /\ IF allocFails
          THEN /\ h' = [h EXCEPT !.command_buffer = InvalidHandle]
               /\ NoteFailure("vkAllocateCommandBuffers")
               /\ UNCHANGED acquired
          ELSE /\ h' = [h EXCEPT !.command_buffer = "cmdBuf"]
               /\ acquired' = Append(acquired, "cmdBuf")
               /\ UNCHANGED firstFailure
  /\ UNCHANGED <<ctxVars, drvVars, bufVars, count, fenceSignaled, inFlight,
                 submits, observed, total_bytes, total_nanos, envVars, bufs,
                 objects, released, recorded, gpuVars>>

\* the recording (vkmembench.cc:50-67, 187-198).  Neither vkBeginCommandBuffer
\* nor vkEndCommandBuffer is checked; a command buffer whose recording failed
\* holds nothing that can execute
RecordCommands ==
  /\ pc = "record"
  /\ lastOp' = "record"
  /\ pc' = Step(pc)
  /\ \E beginFails, endFails \in BOOLEAN :
       /\ outcome' = Unchecked(beginFails \/ endFails)
       /\ LET cmds == IF program = "main" THEN MainCommands
                      ELSE RecordedCommands(buffer_size)
              calls == [i \in 1..Len(cmds) |->
                          CASE cmds[i].op = "reset" -> "vkCmdResetQueryPool"
                            [] cmds[i].op = "timestamp" -> "vkCmdWriteTimestamp2"
                            [] cmds[i].op = "copy" -> "vkCmdCopyBuffer"
                            [] cmds[i].op = "bind" -> "vkCmdBindPipeline"
                            [] cmds[i].op = "push" -> "vkCmdPushConstants"
                            [] cmds[i].op = "dispatch" -> "vkCmdDispatch"]
          IN  /\ trace' = <<"vkBeginCommandBuffer">> \o calls
                          \o <<"vkEndCommandBuffer">>
              /\ recorded' = IF beginFails \/ endFails
                                \/ h.command_buffer # "cmdBuf"
                             THEN <<>> ELSE cmds
              /\ IF beginFails THEN NoteFailure("vkBeginCommandBuffer")
                 ELSE IF endFails THEN NoteFailure("vkEndCommandBuffer")
                 ELSE UNCHANGED firstFailure
  /\ UNCHANGED <<ctxVars, drvVars, bufVars, count, fenceSignaled, inFlight,
                 submits, observed, total_bytes, total_nanos, envVars, h,
                 bufs, objects, acquired, released, gpuVars>>

\* main between `src.mmap()' and the command buffer (vkmembench.cc:140-175):
\* the pipeline layout and the pipeline are created without a look at the
\* result; load_shader throws when the file or the shader module fails
MainPipeline ==
  /\ pc = "pipeline"
  /\ lastOp' = "pipeline"
  /\ \E layoutFails, openFails, shaderFails, pipelineFails \in BOOLEAN :
       IF openFails
       THEN /\ outcome' = "unable to open compute shader binary"
            /\ trace' = <<"vkGetBufferDeviceAddress", "vkCreatePipelineLayout">>
            /\ pc' = "failed"
            /\ IF layoutFails THEN NoteFailure("vkCreatePipelineLayout")
               ELSE UNCHANGED firstFailure
       ELSE IF shaderFails
       THEN /\ outcome' = "unable to create shader module"
            /\ trace' = <<"vkGetBufferDeviceAddress", "vkCreatePipelineLayout",
                          "vkCreateShaderModule">>
            /\ pc' = "failed"
            /\ NoteFailure(IF layoutFails THEN "vkCreatePipelineLayout"
                           ELSE "vkCreateShaderModule")
       ELSE /\ outcome' = Unchecked(layoutFails \/ pipelineFails)
            /\ trace' = <<"vkGetBufferDeviceAddress", "vkCreatePipelineLayout",
                          "vkCreateShaderModule", "vkCreateComputePipelines",
                          "vkDestroyShaderModule">>
            /\ pc' = Step(pc)
            /\ IF layoutFails THEN NoteFailure("vkCreatePipelineLayout")
               ELSE IF pipelineFails THEN NoteFailure("vkCreateComputePipelines")
               ELSE UNCHANGED firstFailure
  /\ UNCHANGED <<ctxVars, drvVars, bufVars, count, fenceSignaled, inFlight,
                 submits, observed, total_bytes, total_nanos, envVars, h,
                 bufs, objects, acquired, released, recorded, gpuVars>>

----------------------------------------------------------------------------
(* Fence (vkcontext.cc:67-80), the device, and the measurement loop of     *)
(* copy_benchmark (vkmembench.cc:76-100).                                  *)

\* the iterations of the measurement loop
Iterations == 32

\* vkQueueSubmit of the recorded command buffer with the fence
\* (vkmembench.cc:83, 208); the result is not looked at, so a rejected
\* submission goes unnoticed
QueueSubmit ==
  /\ pc = "submit"
  /\ \E submitFails \in BOOLEAN :
       /\ inFlight' = IF submitFails THEN inFlight ELSE inFlight + 1
       /\ outcome' = Unchecked(submitFails)
       /\ IF submitFails THEN NoteFailure("vkQueueSubmit")
          ELSE UNCHANGED firstFailure
  /\ submits' = submits + 1
  /\ pc' = Step(pc)
  /\ lastOp' = "vkQueueSubmit"
  /\ trace' = <<"vkQueueSubmit">>
  /\ UNCHANGED <<ctxVars, drvVars, bufVars, count, fenceSignaled, observed,
                 total_bytes, total_nanos, envVars, h, bufs, objects,
                 acquired, released, recorded, gpuVars>>

\* the device runs the commands from position i on, in their order: a reset
\* makes its queries unavailable, the n-th timestamp command latches the n-th
\* reading of the counter into its slot, and a write to a slot that was not
\* reset since its last write is recorded in badWrite
RECURSIVE Execute(_, _, _, _)
Execute(cmds, i, ticks, st) ==
  IF i > Len(cmds) THEN st
  ELSE
    LET c == cmds[i]
        slot == c.first + 1
        next ==
          CASE c.op = "reset" ->
                 [st EXCEPT
                    !.queries = [k \in 1..2 |->
                                   IF k - 1 >= c.first /\ k - 1 < c.first + c.second
                                   THEN Absent ELSE st.queries[k]],
                    !.log = Append(st.log, "reset")]
            [] c.op = "timestamp" ->
                 [st EXCEPT
                    !.queries = [st.queries EXCEPT ![slot] = ticks[st.written + 1]],
                    !.badWrite = st.badWrite \/ st.queries[slot] # Absent,
                    !.written = st.written + 1,
                    !.log = Append(st.log, IF c.first = 0 THEN "timestamp0"
                                           ELSE "timestamp1")]
            [] OTHER -> [st EXCEPT !.log = Append(st.log, c.op)]
    IN  Execute(cmds, i + 1, ticks, next)

\* the device completes the oldest submission: it has run the command buffer,
\* reading its counter at the two timestamp writes (the counter may have
\* wrapped in between), and signals the fence the submission was given
GpuComplete ==
  /\ inFlight > 0
  /\ inFlight' = inFlight - 1
  /\ fenceSignaled' = IF h.transfer_fence = "fence" THEN TRUE ELSE fenceSignaled
  /\ \E t0, t1 \in 0..maxDelta :
       LET st == Execute(recorded, 1, <<t0, t1>>,
                         [queries |-> queries, badWrite |-> badWrite,
                          written |-> 0, log |-> <<>>])
       IN  /\ queries' = st.queries
           /\ badWrite' = st.badWrite
           /\ gpuLog' = st.log
  /\ UNCHANGED <<lastOp, outcome, trace, ctxVars, drvVars, bufVars, pc,
                 count, submits, observed, total_bytes, total_nanos,
                 envVars, runVars>>

\* a wait that returns whether or not the fence is signaled
Fence_wait_no_block ==
  /\ pc = "wait"
  /\ lastOp' = "wait"
  /\ trace' = <<"vkWaitForFences">>
  /\ outcome' = "ok"
  /\ pc' = Step(pc)
  /\ observed' = observed + 1
  /\ UNCHANGED <<ctxVars, drvVars, bufVars, count, fenceSignaled, inFlight,
                 submits, total_bytes, total_nanos, envVars, runVars,
                 gpuVars>>

\* Fence::wait: vkWaitForFences without a timeout returns VK_SUCCESS once the
\* fence is signaled and blocks until then; an error result throws.  What a
\* wait on the undefined handle of a failed vkCreateFence does is undefined:
\* it may return at once.
Fence_wait ==
  /\ pc = "wait"
  /\ lastOp' = "wait"
  /\ trace' = <<"vkWaitForFences">>
  /\ \E waitFails \in BOOLEAN :
       IF waitFails
       THEN /\ outcome' = "unable to wait for fence"
            /\ pc' = "failed"
            /\ NoteFailure("vkWaitForFences")
            /\ UNCHANGED observed
       ELSE /\ fenceSignaled \/ h.transfer_fence # "fence"
            /\ outcome' = "ok"
            /\ pc' = Step(pc)
            /\ observed' = observed + 1
            /\ UNCHANGED firstFailure
  /\ UNCHANGED <<ctxVars, drvVars, bufVars, count, fenceSignaled, inFlight,
                 submits, total_bytes, total_nanos, envVars, h, bufs,
                 objects, acquired, released, recorded, gpuVars>>

\* Fence::reset
Fence_reset ==
  /\ pc = "reset"
  /\ lastOp' = "reset"
  /\ trace' = <<"vkResetFences">>
  /\ \E resetFails \in BOOLEAN :
       IF resetFails
       THEN /\ outcome' = "unable to reset fence"
            /\ pc' = "failed"
            /\ NoteFailure("vkResetFences")
            /\ UNCHANGED fenceSignaled
       ELSE /\ outcome' = "ok"
            /\ pc' = Step(pc)
            /\ fenceSignaled' = FALSE
            /\ UNCHANGED firstFailure
  /\ UNCHANGED <<ctxVars, drvVars, bufVars, count, inFlight, submits,
                 observed, total_bytes, total_nanos, envVars, h, bufs,
                 objects, acquired, released, recorded, gpuVars>>

\* the elapsed time as a signed difference
ElapsedNanos_signed(t0, t1, nanosPerTick) == (t1 - t0) * nanosPerTick

\* `(timestamps[1] - timestamps[0]) * period' (vkmembench.cc:92) in
\* nanoseconds: the difference is unsigned, so it wraps instead of going
\* below zero
ElapsedNanos(t0, t1, nanosPerTick) ==
  ((t1 - t0) % TimestampRange) * nanosPerTick

\* a loop that runs once more
LoopContinues_inclusive(n) == n <= Iterations

\* the loop's condition `count < 32' (vkmembench.cc:82)
LoopContinues(n) == n < Iterations

\* the rest of the loop body (vkmembench.cc:88-95): the timestamps are read
\* back, the totals grow, and the loop goes round or ends.  The result of
\* vkGetQueryPoolResults is not looked at: after a failure, or with the
\* undefined handle of a failed vkCreateQueryPool, the array `timestamps' holds
\* whatever it held.  VK_QUERY_RESULT_WAIT_BIT makes the call wait for both queries.
Readback ==
  /\ pc = "readback"
  /\ lastOp' = "vkGetQueryPoolResults"
  /\ trace' = <<"vkGetQueryPoolResults">>
  /\ \E readFails \in BOOLEAN, g0, g1 \in 0..maxDelta :
       LET undefined == readFails \/ h.query_pool # "queryPool"
           pair == IF undefined THEN <<g0, g1>> ELSE queries
       IN  /\ ~undefined => g0 = 0 /\ g1 = 0 /\ Absent \notin {queries[1], queries[2]}
           /\ outcome' = Unchecked(readFails)
           /\ total_nanos' = total_nanos + ElapsedNanos(pair[1], pair[2], period)
           /\ IF readFails THEN NoteFailure("vkGetQueryPoolResults")
              ELSE UNCHANGED firstFailure
  /\ total_bytes' = total_bytes + buffer_size
  /\ count' = count + 1
  /\ pc' = IF LoopContinues(count + 1) THEN "submit" ELSE "report"
  /\ UNCHANGED <<ctxVars, drvVars, bufVars, fenceSignaled, inFlight,
                 submits, observed, envVars, h, bufs, objects, acquired,
                 released, recorded, gpuVars>>

\* the throughput line and the query pool's destruction (vkmembench.cc:98-100)
Report ==
  /\ pc = "report"
  /\ lastOp' = "report"
  /\ outcome' = "ok"
  /\ trace' = <<"vkDestroyQueryPool">>
  /\ released' = IF h.query_pool = "queryPool"
                 THEN Append(released, "queryPool") ELSE released
  /\ pc' = "done"
  /\ UNCHANGED <<ctxVars, drvVars, bufVars, count, fenceSignaled, inFlight,
                 submits, observed, total_bytes, total_nanos, envVars, h,
                 bufs, objects, acquired, firstFailure, recorded, gpuVars>>

\* the end of main (vkmembench.cc:212-215)
MainFinish ==
  /\ pc = "finish"
  /\ lastOp' = "finish"
  /\ outcome' = "ok"
  /\ trace' = <<"vkDestroyPipelineLayout", "vkDestroyPipeline">>
  /\ pc' = "done"
  /\ UNCHANGED <<ctxVars, drvVars, bufVars, count, fenceSignaled, inFlight,
                 submits, observed, total_bytes, total_nanos, envVars,
                 runVars, gpuVars>>

----------------------------------------------------------------------------
(* The end of a run: the locals' destructors and the caller's Context.     *)

\* the driver calls of a local's destructor: ~Fence (vkcontext.cc:67) or
\* ~Buffer (13-18)
DestructorCalls(which) ==
  IF which = "transfer_fence" THEN <<"vkDestroyFence">>
  ELSE Buffer_dtor_calls(bufs[which].m_allocation)

\* the handles these calls release, in the calls' order
ReleasedBy(which) ==
  IF which = "transfer_fence"
  THEN IF h.transfer_fence = "fence" THEN <<"fence">> ELSE <<>>
  ELSE LET calls == DestructorCalls(which)
       IN  [i \in 1..Len(calls) |->
              IF calls[i] = "vkFreeMemory" THEN MemName(which) ELSE which]

\* the destructors of the locals that exist, in the reverse of the order of
\* their declarations: the fence, dst, src.  The raw handles query_pool and
\* command_buffer have no destructor.
DestroyLocals ==
  LET calls(w) == IF w \in objects THEN DestructorCalls(w) ELSE <<>>
      gone(w) == IF w \in objects THEN ReleasedBy(w) ELSE <<>>
      freed == {bufs[w].m_allocation : w \in objects \cap {"src", "dst"}}
               \ {Absent}
  IN  /\ trace' = calls("transfer_fence") \o calls("dst") \o calls("src")
      /\ released' = released \o gone("transfer_fence") \o gone("dst")
                       \o gone("src")
      /\ memLive' = memLive \ freed
      /\ hostMapped' = hostMapped \ freed
      /\ memFrees' = [m \in MemoryObjects |->
                        IF m \in freed THEN memFrees[m] + 1 ELSE memFrees[m]]
      /\ objects' = {}

\* the closing brace of copy_benchmark (vkmembench.cc:101) or main (216)
Return ==
  /\ pc = "done"
  /\ lastOp' = "return"
  /\ outcome' = "ok"
  /\ DestroyLocals
  /\ pc' = "returned"
  /\ UNCHANGED <<ctxVars, drvVars, memoryTypes, nextMemory, boundMemory,
                 m_allocation, m_mapped, bufState, reqFlags, count,
                 fenceSignaled, inFlight, submits, observed, total_bytes,
                 total_nanos, envVars, h, bufs, acquired, firstFailure,
                 recorded, gpuVars>>

\* an exception leaves the function: the stack is unwound
Unwind ==
  /\ pc = "failed"
  /\ lastOp' = "unwind"
  /\ DestroyLocals
  /\ pc' = "thrown"
  /\ UNCHANGED <<outcome, ctxVars, drvVars, memoryTypes, nextMemory,
                 boundMemory, m_allocation, m_mapped, bufState, reqFlags,
                 count, fenceSignaled, inFlight, submits, observed,
                 total_bytes, total_nanos, envVars, h, bufs, acquired,
                 firstFailure, recorded, gpuVars>>

\* nothing catches the exception (main has no handler, and the call of
\* copy_benchmark it holds in a comment has none): std::terminate is called,
\* and the implementation may do so without unwinding the stack
Terminate ==
  /\ pc = "failed"
  /\ lastOp' = "terminate"
  /\ trace' = <<>>
  /\ pc' = "terminated"
  /\ UNCHANGED <<outcome, ctxVars, drvVars, bufVars, count, fenceSignaled,
                 inFlight, submits, observed, total_bytes, total_nanos,
                 envVars, runVars, gpuVars>>

\* a caller that destroys its Context at any time
Caller_context_dtor_early == Context_dtor

\* the Context outlives the run: main declares it first (vkmembench.cc:127),
\* so it is destroyed last, and copy_benchmark borrows its caller's
Caller_context_dtor ==
  /\ pc \in {"returned", "thrown"}
  /\ Context_dtor

----------------------------------------------------------------------------
(* Initial states and specifications. *)

NoOperation ==
  /\ lastOp = "none"
  /\ outcome = "none"
  /\ trace = <<>>

\* Context before its constructor ran: every handle is nullptr
ContextUnconstructed ==
  /\ m_instance = NullHandle
  /\ m_physical_device = NullHandle
  /\ m_device = NullHandle
  /\ m_compute_queue = NullHandle
  /\ m_compute_command_pool = NullHandle
  /\ queueFamilyIndex = Absent
  /\ ctxState = "unconstructed"

\* a Context whose constructor returned, on a driver with one device whose
\* first queue family is the compute+transfer one
ContextConstructed ==
  /\ numPhysicalDevices = 1
  /\ queue_families = <<VK_QUEUE_COMPUTE_BIT + VK_QUEUE_TRANSFER_BIT>>
  /\ m_instance = "instance"
  /\ m_physical_device = "physical0"
  /\ m_device = "device"
  /\ m_compute_queue = "queue"
  /\ m_compute_command_pool = "pool"
  /\ queueFamilyIndex = 0
  /\ ctxState = "constructed"

\* no memory handed out and no Buffer under study
NoAllocation ==
  /\ nextMemory = 1
  /\ memLive = {}
  /\ memFrees = [m \in MemoryObjects |-> 0]
  /\ boundMemory = Absent
  /\ hostMapped = {}
  /\ m_allocation = Absent
  /\ m_mapped = FALSE
  /\ bufState = "none"
  /\ reqFlags = Absent

NoBuffer ==
  /\ memoryTypes = <<>>
  /\ NoAllocation

\* the loop before its first iteration (vkmembench.cc:76-77, 82)
LoopEntry ==
  /\ count = 0
  /\ fenceSignaled = FALSE
  /\ inFlight = 0
  /\ submits = 0
  /\ observed = 0
  /\ total_bytes = 0
  /\ total_nanos = 0

\* a run before its first statement
NoLocals ==
  /\ h = NoHandles
  /\ bufs = [src |-> NoBufferObject, dst |-> NoBufferObject]
  /\ objects = {}
  /\ acquired = <<>>
  /\ released = <<>>
  /\ firstFailure = "none"
  /\ recorded = <<>>

\* a device that has executed nothing
DeviceIdle ==
  /\ queries = <<Absent, Absent>>
  /\ badWrite = FALSE
  /\ gpuLog = <<>>

NoBench ==
  /\ pc = "idle"
  /\ LoopEntry
  /\ buffer_size = 0
  /\ program = "none"
  /\ period = 1
  /\ maxDelta = 0
  /\ NoLocals
  /\ DeviceIdle

InitContext ==
  /\ NoOperation
  /\ numPhysicalDevices \in 0..MaxDevices
  /\ queue_families \in SeqsUpTo(QueueFlagSet, MaxFamilies)
  /\ ContextUnconstructed
  /\ live = {}
  /\ destroyCount = [o \in DriverObjects |-> 0]
  /\ NoBuffer
  /\ NoBench

NextContext == Context_ctor \/ Context_dtor

SpecContext == InitContext /\ [][NextContext]_vars

\* a Buffer as create_buffer returns it (vkcontext.hh:21-22, vkcontext.cc:205)
\* on a device with some memory types
InitBuffer ==
  /\ NoOperation
  /\ ContextConstructed
  /\ live = {"instance", "device", "pool", "buffer"}
  /\ destroyCount = [o \in DriverObjects |-> 0]
  /\ memoryTypes \in SeqsUpTo(MemFlagSet, MaxTypes)
  /\ nextMemory = 1
  /\ memLive = {}
  /\ memFrees = [m \in MemoryObjects |-> 0]
  /\ boundMemory = Absent
  /\ hostMapped = {}
  /\ m_allocation = Absent
  /\ m_mapped = FALSE
  /\ bufState = "live"
  /\ reqFlags = Absent
  /\ NoBench

NextBuffer == Buffer_allocate \/ Buffer_mmap \/ Buffer_munmap \/ Buffer_dtor

SpecBuffer == InitBuffer /\ [][NextBuffer]_vars

\* copy_benchmark on entry to its loop after a setup in which no call failed:
\* both buffers are allocated and src is mapped, the fence create_fence
\* returned is unsignaled, the commands are recorded, nothing was submitted,
\* the totals are zero
AtLoopEntry ==
  /\ NoOperation
  /\ ContextConstructed
  /\ live = {"instance", "device", "pool"}
  /\ destroyCount = [o \in DriverObjects |-> 0]
  /\ memoryTypes =
       <<VK_MEMORY_PROPERTY_HOST_VISIBLE_BIT + VK_MEMORY_PROPERTY_HOST_COHERENT_BIT,
         VK_MEMORY_PROPERTY_DEVICE_LOCAL_BIT>>
  /\ nextMemory = 3
  /\ memLive = {1, 2}
  /\ memFrees = [m \in MemoryObjects |-> 0]
  /\ boundMemory = Absent
  /\ hostMapped = {1}
  /\ m_allocation = Absent
  /\ m_mapped = FALSE
  /\ bufState = "none"
  /\ reqFlags = Absent
  /\ pc = "submit"
  /\ LoopEntry
  /\ buffer_size \in {1, MaxBufferSize}
  /\ program = "copy_benchmark"
  /\ h = [src |-> "src", dst |-> "dst", query_pool |-> "queryPool",
          transfer_fence |-> "fence", command_buffer |-> "cmdBuf"]
  /\ bufs = [src |-> [m_size |-> buffer_size, m_allocation |-> 1,
                      m_mapped |-> TRUE, allocationSize |-> buffer_size,
                      mapSize |-> buffer_size],
             dst |-> [m_size |-> buffer_size, m_allocation |-> 2,
                      m_mapped |-> FALSE, allocationSize |-> buffer_size,
                      mapSize |-> 0]]
  /\ objects = {"src", "dst", "transfer_fence"}
  /\ acquired = <<"src", "srcMem", "dst", "dstMem", "queryPool", "fence",
                  "cmdBuf">>
  /\ released = <<>>
  /\ firstFailure = "none"
  /\ recorded = RecordedCommands(buffer_size)
  /\ DeviceIdle

\* the loop on a device whose counter reads 0..MaxDelta and ticks every
\* MaxPeriod nanoseconds
InitBench ==
  /\ AtLoopEntry
  /\ period = MaxPeriod
  /\ maxDelta = MaxDelta

\* the loop on a device whose counter stands still
InitBenchFair ==
  /\ AtLoopEntry
  /\ period = 1
  /\ maxDelta = 0

NextBench ==
  QueueSubmit \/ GpuComplete \/ Fence_wait \/ Fence_reset \/ Readback \/ Report

SpecBench == InitBench /\ [][NextBench]_vars

\* the loop run by a thread that keeps going, on a device that completes
\* what it is given
SpecBenchFair ==
  /\ InitBenchFair /\ [][NextBench]_vars
  /\ WF_vars(QueueSubmit) /\ WF_vars(GpuComplete) /\ WF_vars(Fence_wait)
  /\ WF_vars(Fence_reset) /\ WF_vars(Readback) /\ WF_vars(Report)

\* copy_benchmark called with a Context its caller constructed
InitRun ==
  /\ NoOperation
  /\ ContextConstructed
  /\ live = {"instance", "device", "pool"}
  /\ destroyCount = [o \in DriverObjects |-> 0]
  /\ NoAllocation
  /\ memoryTypes \in DeviceProfiles
  /\ pc = "create_src"
  /\ LoopEntry
  /\ buffer_size \in BufferSizes
  /\ program = "copy_benchmark"
  /\ period = MaxPeriod
  /\ maxDelta = 0
  /\ NoLocals
  /\ DeviceIdle

\* main before `Context context(true)'
InitMain ==
  /\ NoOperation
  /\ numPhysicalDevices = 1
  /\ queue_families = <<VK_QUEUE_COMPUTE_BIT + VK_QUEUE_TRANSFER_BIT>>
  /\ ContextUnconstructed
  /\ live = {}
  /\ destroyCount = [o \in DriverObjects |-> 0]
  /\ NoAllocation
  /\ memoryTypes \in DeviceProfiles
  /\ pc = "create_src"
  /\ LoopEntry
  /\ buffer_size = 0
  /\ program = "main"
  /\ period = 1
  /\ maxDelta = 0
  /\ NoLocals
  /\ DeviceIdle

InitProgram == InitRun \/ InitMain

NextProgram ==
  \/ Context_ctor \/ CreateBuffer \/ AllocateBuffer \/ MapSource
  \/ CreateQueryPool \/ CreateFence \/ AllocateCommandBuffer
  \/ RecordCommands \/ MainPipeline \/ QueueSubmit \/ GpuComplete
  \/ Fence_wait \/ Fence_reset \/ Readback \/ Report \/ MainFinish
  \/ Return \/ Unwind \/ Terminate \/ Caller_context_dtor

\* a whole run: main, or copy_benchmark called by a caller that holds a
\* Context.  The device's counter stands still (maxDelta = 0): the elapsed
\* time is the subject of SpecBench.
SpecProgram == InitProgram /\ [][NextProgram]_vars

----------------------------------------------------------------------------
(* Properties. *)

ComputeTransfer == VK_QUEUE_COMPUTE_BIT + VK_QUEUE_TRANSFER_BIT
\* the constructor got as far as selecting a physical device
SelectionReached == lastOp = "Context" /\ m_instance # NullHandle
NoLogicalDevice ==
  /\ Count(trace, "vkCreateDevice") = 0
  /\ m_device = NullHandle
  /\ "device" \notin live

\* C1: for every list of memory types and every requiredFlags, find_memory_type
\* returns the lowest index whose flags equal requiredFlags and is absent when
\* no type's flags equal requiredFlags, a strict superset notwithstanding; and
\* allocate fails with "unable to find memory type" exactly in that case.
C1_FindMemoryTypeExact ==
  /\ \A f \in MemFlagSet :
       LET r == find_memory_type(f)
       IN  IF \E i \in 1..Len(memoryTypes) : memoryTypes[i] = f
           THEN /\ r \in 0..(Len(memoryTypes) - 1)
                /\ memoryTypes[r + 1] = f
                /\ \A j \in 1..r : memoryTypes[j] # f
           ELSE r = Absent
  /\ lastOp = "allocate" =>
       ((outcome = "unable to find memory type")
          <=> (\A i \in 1..Len(memoryTypes) : memoryTypes[i] # reqFlags))

\* allocate found no type although one offers strictly more than was asked
C1_Witness ==
  /\ lastOp = "allocate"
  /\ outcome = "unable to find memory type"
  /\ \E i \in 1..Len(memoryTypes) :
       memoryTypes[i] # reqFlags /\ IsSuperset(memoryTypes[i], reqFlags)

\* C2 as stated: with any number of physical devices other than one,
\* construction fails at device selection and creates no logical device.
C2_ExactlyOneDevice ==
  (SelectionReached /\ numPhysicalDevices # 1) =>
    (outcome = "unable to find physical device" /\ NoLogicalDevice)

\* C2 as amended: with no physical device construction fails at device
\* selection; whenever it fails there no logical device is created; and when
\* selection passes at least one device exists and the first one enumerated is
\* the one selected.
C2_AtLeastOneDevice ==
  SelectionReached =>
    /\ numPhysicalDevices = 0 => outcome = "unable to find physical device"
    /\ outcome = "unable to find physical device" => NoLogicalDevice
    /\ outcome # "unable to find physical device" =>
         (numPhysicalDevices >= 1 /\ m_physical_device = "physical0")

\* construction failed at selection on a driver without devices
C2_Witness ==
  /\ SelectionReached
  /\ numPhysicalDevices = 0
  /\ outcome = "unable to find physical device"
  /\ ctxState = "failed"

\* C3: once a device is selected, queue discovery picks the lowest-index
\* family whose flags equal compute|transfer; with no such family construction
\* fails with "unable to find compute-capable queue" and creates no logical
\* device, whatever supersets exist.
C3_QueueExactLowest ==
  (SelectionReached /\ outcome # "unable to find physical device") =>
    LET matches == {i \in 1..Len(queue_families) :
                      queue_families[i] = ComputeTransfer}
    IN  IF matches = {}
        THEN outcome = "unable to find compute-capable queue" /\ NoLogicalDevice
        ELSE /\ outcome # "unable to find compute-capable queue"
             /\ queueFamilyIndex + 1 \in matches
             /\ \A i \in matches : queueFamilyIndex + 1 <= i

\* discovery failed although a family offers compute, transfer and more
C3_Witness ==
  /\ SelectionReached
  /\ outcome = "unable to find compute-capable queue"
  /\ \E i \in 1..Len(queue_families) :
       queue_families[i] # ComputeTransfer
       /\ IsSuperset(queue_families[i], ComputeTransfer)

\* C4: when construction fails after the instance was created, every driver
\* handle created so far has been destroyed when the failure reaches the caller.
C4_NothingLiveAfterFailure ==
  ctxState = "failed" => live = {}

\* C5: mmap reaches the driver only with an allocation and unmapped, munmap
\* only when mapped; a successful mmap sets the mapped flag and munmap clears
\* it; a violating call fails its assertion and makes no driver call.
C5_MapDiscipline ==
  [][/\ (lastOp' = "mmap" /\ (m_allocation = Absent \/ m_mapped)) =>
          /\ outcome' = "assertion failed"
          /\ trace' = <<>>
          /\ hostMapped' = hostMapped
     /\ (lastOp' = "munmap" /\ ~m_mapped) =>
          /\ outcome' = "assertion failed"
          /\ trace' = <<>>
          /\ hostMapped' = hostMapped
     /\ Count(trace', "vkMapMemory") > 0 => (m_allocation # Absent /\ ~m_mapped)
     /\ Count(trace', "vkUnmapMemory") > 0 => m_mapped
     /\ (lastOp' = "mmap" /\ outcome' = "ok") => (m_mapped' /\ ~m_mapped)
     /\ (lastOp' = "munmap" /\ outcome' = "ok") => (~m_mapped' /\ m_mapped)
    ]_vars

\* mmap on a mapped buffer was rejected
C5_Witness ==
  /\ lastOp = "mmap"
  /\ outcome = "assertion failed"
  /\ m_mapped
  /\ m_allocation \in hostMapped

\* C6: allocate on a Buffer that holds an allocation is rejected: it makes no
\* driver allocation and leaves the stored handle as it was.
C6_NoSecondAllocation ==
  [][(lastOp' = "allocate" /\ m_allocation # Absent) =>
       /\ Count(trace', "vkAllocateMemory") = 0
       /\ m_allocation' = m_allocation
       /\ memLive' = memLive
    ]_vars

\* C7: a Buffer is unallocated and unmapped, or holds a memory handle that is
\* bound to it.
C7_UnallocatedOrBound ==
  bufState = "live" =>
    \/ (m_allocation = Absent /\ ~m_mapped /\ boundMemory = Absent)
    \/ (m_allocation # Absent /\ boundMemory = m_allocation)

\* C8: destruction destroys the buffer handle once; a held allocation is
\* freed once and before that; without an allocation no memory is freed.
C8_BufferDestruction ==
  bufState = "destroyed" =>
    /\ destroyCount["buffer"] = 1
    /\ "buffer" \notin live
    /\ \A m \in MemoryObjects : memFrees[m] <= 1
    /\ IF m_allocation # Absent
       THEN /\ trace = <<"vkFreeMemory", "vkDestroyBuffer">>
            /\ memFrees[m_allocation] = 1
            /\ m_allocation \notin memLive
       ELSE /\ trace = <<"vkDestroyBuffer">>
            /\ \A m \in MemoryObjects : memFrees[m] = 0

\* a buffer with an allocation was destroyed
C8_Witness ==
  /\ bufState = "destroyed"
  /\ m_allocation # Absent
  /\ memFrees[m_allocation] = 1

\* C9: ~Context destroys the command pool, then the logical device, then the
\* instance, each at most once: the device only after the pool is gone and
\* the instance only after the device is gone.
C9_ContextDestructionOrder ==
  /\ "pool" \in live => "device" \in live
  /\ "device" \in live => "instance" \in live
  /\ \A o \in DriverObjects : destroyCount[o] <= 1
  /\ ctxState = "destroyed" =>
       /\ live = {}
       /\ \A c \in {"vkDestroyCommandPool", "vkDestroyDevice",
                     "vkDestroyInstance"} : Count(trace, c) <= 1
       /\ Count(trace, "vkDestroyDevice") = 1
       /\ Count(trace, "vkDestroyInstance") = 1
       /\ m_compute_command_pool = "pool" =>
            Count(trace, "vkDestroyCommandPool") = 1
       /\ Count(trace, "vkDestroyCommandPool") = 1 =>
            IndexOf(trace, "vkDestroyCommandPool")
              < IndexOf(trace, "vkDestroyDevice")
       /\ IndexOf(trace, "vkDestroyDevice") < IndexOf(trace, "vkDestroyInstance")

\* a Context with all three handles was destroyed
C9_Witness ==
  /\ ctxState = "destroyed"
  /\ m_compute_command_pool = "pool"
  /\ trace = <<"vkDestroyCommandPool", "vkDestroyDevice", "vkDestroyInstance">>

\* C10: at most one submission is in flight, a submission is made only after
\* every earlier one's fence was seen signaled by wait.
C10_OneSubmissionInFlight ==
  /\ inFlight <= 1
  /\ submits - observed <= 1
  /\ pc = "submit" => (submits = observed /\ inFlight = 0)

\* a later iteration's submission is in flight, the earlier ones were waited for
C10_Witness ==
  /\ pc = "wait"
  /\ count >= 1
  /\ inFlight = 1
  /\ submits = count + 1
  /\ observed = count


\* a wait that returns to its caller
WaitReturns == Fence_wait /\ outcome' = "ok"

\* C11: a fence that create_fence created starts unsignaled; it goes from
\* unsignaled to signaled only in a step in which the device completes a
\* submission, and from signaled to unsignaled only in a successful reset;
\* a wait on a signaled fence can return at once, and a wait that returns
\* does so on a signaled fence and leaves it signaled.
C11_FenceTransitions ==
  /\ [](pc = "wait" /\ fenceSignaled => ENABLED WaitReturns)
  /\ [][ /\ (pc = "create_fence" /\ h'.transfer_fence = "fence"
               => ~fenceSignaled')
         /\ (~fenceSignaled /\ fenceSignaled'
               => /\ h.transfer_fence = "fence"
                  /\ inFlight > 0
                  /\ inFlight' = inFlight - 1)
         /\ (fenceSignaled /\ ~fenceSignaled'
               => /\ pc = "reset"
                  /\ trace' = <<"vkResetFences">>
                  /\ outcome' = "ok")
         /\ (pc = "wait" /\ pc' \notin {"wait", "failed"}
               /\ h.transfer_fence = "fence"
               => fenceSignaled /\ fenceSignaled') ]_vars

\* a fence was created, signaled by its submission, waited for and reset
C11_Witness ==
  /\ h.transfer_fence = "fence"
  /\ lastOp = "reset"
  /\ outcome = "ok"
  /\ observed >= 1
  /\ ~fenceSignaled

C13_FailureStopsRun ==
  firstFailure # "none" => pc \in {"failed", "thrown", "terminated"}

\* C14: the throughput line is printed only by a run in whose loop no
\* submission, wait, reset or read-back failed.
C14_NoReportAfterFailure ==
  lastOp = "report"
  => firstFailure \notin {"vkQueueSubmit", "vkWaitForFences", "vkResetFences",
                          "vkGetQueryPoolResults"}

\* C15: every submission is given a fence that exists, is unsignaled and
\* belongs to no pending submission.
C15_FreshFenceAtSubmit ==
  [][ submits' = submits + 1
      => (h.transfer_fence = "fence" /\ ~fenceSignaled /\ inFlight = 0) ]_vars

\* the order of the steps of one iteration, and the loop's exit
LoopOrder ==
  { <<"submit", "wait">>, <<"wait", "reset">>, <<"reset", "readback">>,
    <<"readback", "submit">>, <<"readback", "report">>, <<"report", "done">> }

\* C16: the report is reached after exactly 32 submissions, waits and
\* read-backs; the steps follow each other as submit, wait, reset, read-back
\* with the totals growing in the read-back; and a run in which no driver call
\* fails, on a device that completes every submission, reaches the report.
C16_ThirtyTwoIterations ==
  /\ [](pc \in {"report", "done"}
          => count = 32 /\ submits = 32 /\ observed = 32)
  /\ [](pc = "submit" => submits = count /\ observed = count)
  /\ [][ /\ (pc' # pc => <<pc, pc'>> \in LoopOrder \/ pc' = "failed")
         /\ (count' # count
               => /\ pc = "readback"
                  /\ count' = count + 1
                  /\ total_bytes' = total_bytes + buffer_size
                  /\ total_nanos' >= total_nanos) ]_vars
  /\ <>(firstFailure # "none" \/ pc = "report")

\* the run is at its report after 32 iterations without a failure
C16_Witness ==
  /\ pc = "report"
  /\ firstFailure = "none"
  /\ submits = 32
  /\ lastOp = "vkGetQueryPoolResults"

\* C17: the command buffer of copy_benchmark holds the reset of both queries,
\* the timestamp into slot 0, one copy of buffer_size from offset 0 to offset
\* 0 and the timestamp into slot 1, in this order; every execution runs them
\* in this order, and no timestamp is written into a slot that was not reset.
C17_CommandOrder ==
  program = "copy_benchmark" =>
    /\ recorded # <<>> =>
         /\ Len(recorded) = 4
         /\ recorded[1].op = "reset" /\ recorded[1].first = 0
         /\ recorded[1].second = 2
         /\ recorded[2].op = "timestamp" /\ recorded[2].first = 0
         /\ recorded[2].stage = "NONE"
         /\ recorded[3].op = "copy" /\ recorded[3].first = 0
         /\ recorded[3].second = 0 /\ recorded[3].size = buffer_size
         /\ recorded[4].op = "timestamp" /\ recorded[4].first = 1
         /\ recorded[4].stage = "COPY"
    /\ gpuLog # <<>> => gpuLog = <<"reset", "timestamp0", "copy", "timestamp1">>
    /\ ~badWrite

\* the device has executed the command buffer for the second time
C17_Witness ==
  /\ program = "copy_benchmark"
  /\ count >= 1
  /\ pc = "wait"
  /\ fenceSignaled
  /\ gpuLog = <<"reset", "timestamp0", "copy", "timestamp1">>
  /\ queries[1] # Absent /\ queries[2] # Absent

\* C18: while a Buffer or Fence of the run exists the Context is constructed
\* and its logical device is live, every step that creates or destroys one
\* starts with the device live, and the Context is destroyed only when none
\* is left.
C18_ContextOutlivesLocals ==
  /\ [](objects # {} => ctxState = "constructed" /\ "device" \in live)
  /\ [][ /\ (objects' # objects => "device" \in live)
         /\ (ctxState' = "destroyed" /\ ctxState # "destroyed"
               => objects = {}) ]_vars

\* the run's Buffers and Fence were destroyed, then the Context
C18_Witness ==
  /\ ctxState = "destroyed"
  /\ "device" \notin live
  /\ Count(released, "src") = 1
  /\ Count(released, "fence") = 1

\* C19: when control is back at the caller of copy_benchmark, on return or
\* with an exception, the handles the run acquired have been released once
\* each, in the reverse of the order of their acquisition.
C19_ReleasedInReverse ==
  program = "copy_benchmark" /\ pc \in {"returned", "thrown"}
  => released = Reverse(acquired)

\* C20: the buffers, their allocations, the mapping and the recorded copy
\* have the size copy_benchmark was called with.
C20_SizesEqualBufferSize ==
  program = "copy_benchmark" =>
    /\ \A w \in objects \cap {"src", "dst"} :
         /\ bufs[w].m_size = buffer_size
         /\ bufs[w].m_allocation # Absent
              => bufs[w].allocationSize = buffer_size
         /\ bufs[w].m_mapped => bufs[w].mapSize = buffer_size
    /\ \A i \in 1..Len(recorded) :
         recorded[i].op = "copy" => recorded[i].size = buffer_size
    /\ total_bytes = buffer_size * count
====
